---- MODULE Spec2Model ----
(***************************************************************************)
(* Model of the libsignal bridge boundary layer:                           *)
(*   rust/bridge/ffi/src/util.rs          the error classifier             *)
(*   rust/bridge/shared/src/jni/convert.rs the conversion framework        *)
(***************************************************************************)
EXTENDS Integers, Sequences, FiniteSets, TLC

(***************************************************************************)
(* SignalErrorCode (util.rs, #[repr(C)] enum): the numeric code table.     *)
(***************************************************************************)
UnknownError == 1
InvalidState == 2
InternalError == 3
NullParameter == 4
InvalidArgument == 5
InvalidType == 6
InvalidUtf8String == 7
Cancelled == 8
ProtobufError == 10
LegacyCiphertextVersion == 21
UnknownCiphertextVersion == 22
UnrecognizedMessageVersion == 23
InvalidMessage == 30
SealedSenderSelfSend == 31
InvalidKey == 40
InvalidSignature == 41
InvalidAttestationData == 42
FingerprintVersionMismatch == 51
FingerprintParsingError == 52
UntrustedIdentity == 60
InvalidKeyIdentifier == 70
SessionNotFound == 80
InvalidRegistrationId == 81
InvalidSession == 82
InvalidSenderKeySession == 83
DuplicatedMessage == 90
CallbackError == 100
VerificationFailure == 110
UsernameCannotBeEmpty == 120
UsernameCannotStartWithDigit == 121
UsernameMissingSeparator == 122
UsernameBadDiscriminatorCharacter == 123
UsernameBadNicknameCharacter == 124
UsernameTooShort == 125
UsernameTooLong == 126
UsernameLinkInvalidEntropyDataLength == 127
UsernameLinkInvalid == 128
UsernameDiscriminatorCannotBeEmpty == 140
UsernameDiscriminatorCannotBeZero == 141
UsernameDiscriminatorCannotBeSingleDigit == 142
UsernameDiscriminatorCannotHaveLeadingZeros == 143
UsernameDiscriminatorTooLarge == 144
IoError == 130
InvalidMediaInput == 131
UnsupportedMediaInput == 132
ConnectionTimedOut == 133
NetworkProtocol == 134
RateLimited == 135
WebSocket == 136
CdsiInvalidToken == 137
ConnectionFailed == 138
ChatServiceInactive == 139
SvrDataMissing == 150
SvrRestoreFailed == 151
AppExpired == 160
DeviceDeregistered == 161

\* Every discriminant the enum declares.
SignalErrorCode ==
    { UnknownError, InvalidState, InternalError, NullParameter, InvalidArgument,
      InvalidType, InvalidUtf8String, Cancelled, ProtobufError,
      LegacyCiphertextVersion, UnknownCiphertextVersion, UnrecognizedMessageVersion,
      InvalidMessage, SealedSenderSelfSend, InvalidKey, InvalidSignature,
      InvalidAttestationData, FingerprintVersionMismatch, FingerprintParsingError,
      UntrustedIdentity, InvalidKeyIdentifier, SessionNotFound, InvalidRegistrationId,
      InvalidSession, InvalidSenderKeySession, DuplicatedMessage, CallbackError,
      VerificationFailure, UsernameCannotBeEmpty, UsernameCannotStartWithDigit,
      UsernameMissingSeparator, UsernameBadDiscriminatorCharacter,
      UsernameBadNicknameCharacter, UsernameTooShort, UsernameTooLong,
      UsernameLinkInvalidEntropyDataLength, UsernameLinkInvalid,
      UsernameDiscriminatorCannotBeEmpty, UsernameDiscriminatorCannotBeZero,
      UsernameDiscriminatorCannotBeSingleDigit,
      UsernameDiscriminatorCannotHaveLeadingZeros, UsernameDiscriminatorTooLarge,
      IoError, InvalidMediaInput, UnsupportedMediaInput, ConnectionTimedOut,
      NetworkProtocol, RateLimited, WebSocket, CdsiInvalidToken, ConnectionFailed,
      ChatServiceInactive, SvrDataMissing, SvrRestoreFailed, AppExpired,
      DeviceDeregistered }

(***************************************************************************)
(* Bounds of the model.                                                    *)
(***************************************************************************)
\* Payload values a variant may carry (addresses, lengths, messages ...).
MaxPayload == 1
\* Variants of a collaborator union that the match does not name and that
\* only its wildcard arm covers.
MaxOther == 2
\* Variants added to the error unions without a rule of their own.
MaxAdded == 1

Payloads == 0..MaxPayload

(***************************************************************************)
(* The match of From<&SignalFfiError> for SignalErrorCode, arm by arm, in  *)
(* source order.  An or-pattern  A | B => c  is the arms A => c, B => c.   *)
(*   top   the SignalFfiError variant                                      *)
(*   sub   "-"  the variant is matched with no inner pattern               *)
(*         "_"  the inner pattern is the wildcard                          *)
(*         else the variant of the inner union the pattern names (for the  *)
(*              media arms: the variant of err.kind in the nested match)   *)
(*   cfg   TRUE for the arms under #[cfg(feature = "signal-media")]        *)
(* A pattern that cannot fail on the inner value (a unit struct such as   *)
(* ZkGroupVerificationFailure, a field bound to _) is written "_".         *)
(***************************************************************************)
Arm(t, s, c) == [top |-> t, sub |-> s, code |-> c, cfg |-> FALSE]

MediaArm(t, s, c) == [top |-> t, sub |-> s, code |-> c, cfg |-> TRUE]

ArmsA ==
    << Arm("NullPointer", "-", NullParameter),
       Arm("UnexpectedPanic", "_", InternalError),
       Arm("InternalError", "_", InternalError),
       Arm("DeviceTransfer", "InternalError", InternalError),
       Arm("Signal", "FfiBindingError", InternalError),
       Arm("InvalidUtf8String", "-", InvalidUtf8String),
       Arm("Cancelled", "-", Cancelled),
       Arm("Signal", "InvalidProtobufEncoding", ProtobufError),
       Arm("Signal", "DuplicatedMessage", DuplicatedMessage),
       Arm("Signal", "InvalidPreKeyId", InvalidKeyIdentifier),
       Arm("Signal", "InvalidSignedPreKeyId", InvalidKeyIdentifier),
       Arm("Signal", "InvalidKyberPreKeyId", InvalidKeyIdentifier),
       Arm("Signal", "SealedSenderSelfSend", SealedSenderSelfSend),
       Arm("Signal", "SignatureValidationFailed", InvalidSignature),
       Arm("Signal", "NoKeyTypeIdentifier", InvalidKey),
       Arm("Signal", "BadKeyType", InvalidKey),
       Arm("Signal", "BadKeyLength", InvalidKey),
       Arm("Signal", "BadKEMKeyType", InvalidKey),
       Arm("Signal", "WrongKEMKeyType", InvalidKey),
       Arm("Signal", "BadKEMKeyLength", InvalidKey),
       Arm("Signal", "InvalidMacKeyLength", InvalidKey),
       Arm("DeviceTransfer", "KeyDecodingFailed", InvalidKey),
       Arm("HsmEnclave", "InvalidPublicKeyError", InvalidKey),
       Arm("SignalCrypto", "InvalidKeySize", InvalidKey),
       Arm("Sgx", "AttestationDataError", InvalidAttestationData),
       Arm("Pin", "Argon2Error", InvalidArgument),
       Arm("Pin", "DecodingError", InvalidArgument),
       Arm("Pin", "MrenclaveLookupError", InvalidArgument),
       Arm("Signal", "SessionNotFound", SessionNotFound),
       Arm("Signal", "NoSenderKeyState", SessionNotFound),
       Arm("Signal", "InvalidRegistrationId", InvalidRegistrationId),
       Arm("Signal", "FingerprintParsingError", FingerprintParsingError),
       Arm("Signal", "FingerprintVersionMismatch", FingerprintVersionMismatch),
       Arm("Signal", "UnrecognizedMessageVersion", UnrecognizedMessageVersion),
       Arm("Signal", "UnknownSealedSenderVersion", UnrecognizedMessageVersion),
       Arm("Signal", "UnrecognizedCiphertextVersion", UnknownCiphertextVersion),
       Arm("Signal", "InvalidMessage", InvalidMessage),
       Arm("Signal", "CiphertextMessageTooShort", InvalidMessage),
       Arm("Signal", "InvalidSealedSenderMessage", InvalidMessage),
       Arm("Signal", "BadKEMCiphertextLength", InvalidMessage),
       Arm("SignalCrypto", "InvalidTag", InvalidMessage),
       Arm("Sgx", "AttestationError", InvalidMessage),
       Arm("Sgx", "NoiseError", InvalidMessage),
       Arm("Sgx", "NoiseHandshakeError", InvalidMessage),
       Arm("HsmEnclave", "HSMHandshakeError", InvalidMessage),
       Arm("HsmEnclave", "HSMCommunicationError", InvalidMessage),
       Arm("Signal", "LegacyCiphertextVersion", LegacyCiphertextVersion),
       Arm("Signal", "UntrustedIdentity", UntrustedIdentity),
       Arm("HsmEnclave", "TrustedCodeError", UntrustedIdentity),
       Arm("Signal", "InvalidState", InvalidState),
       Arm("Sgx", "InvalidBridgeStateError", InvalidState),
       Arm("HsmEnclave", "InvalidBridgeStateError", InvalidState),
       Arm("Signal", "InvalidSessionStructure", InvalidSession),
       Arm("Signal", "InvalidSenderKeySession", InvalidSenderKeySession),
       Arm("InvalidArgument", "_", InvalidArgument),
       Arm("Signal", "InvalidArgument", InvalidArgument),
       Arm("HsmEnclave", "InvalidCodeHashError", InvalidArgument),
       Arm("SignalCrypto", "_", InvalidArgument),
       Arm("Signal", "ApplicationCallbackError", CallbackError) >>

ArmsB ==
    << Arm("ZkGroupVerificationFailure", "_", VerificationFailure),
       Arm("ZkGroupDeserializationFailure", "_", InvalidType),
       Arm("UsernameError", "NicknameCannotBeEmpty", UsernameCannotBeEmpty),
       Arm("UsernameError", "NicknameCannotStartWithDigit", UsernameCannotStartWithDigit),
       Arm("UsernameError", "MissingSeparator", UsernameMissingSeparator),
       Arm("UsernameError", "BadNicknameCharacter", UsernameBadNicknameCharacter),
       Arm("UsernameError", "NicknameTooShort", UsernameTooShort),
       Arm("UsernameError", "NicknameTooLong", UsernameTooLong),
       Arm("UsernameLinkError", "InputDataTooLong", UsernameTooLong),
       Arm("UsernameError", "DiscriminatorCannotBeEmpty", UsernameDiscriminatorCannotBeEmpty),
       Arm("UsernameError", "DiscriminatorCannotBeZero", UsernameDiscriminatorCannotBeZero),
       Arm("UsernameError", "DiscriminatorCannotBeSingleDigit",
           UsernameDiscriminatorCannotBeSingleDigit),
       Arm("UsernameError", "DiscriminatorCannotHaveLeadingZeros",
           UsernameDiscriminatorCannotHaveLeadingZeros),
       Arm("UsernameError", "BadDiscriminatorCharacter", UsernameBadDiscriminatorCharacter),
       Arm("UsernameError", "DiscriminatorTooLarge", UsernameDiscriminatorTooLarge),
       Arm("UsernameProofError", "_", VerificationFailure),
       Arm("UsernameLinkError", "InvalidEntropyDataLength",
           UsernameLinkInvalidEntropyDataLength),
       Arm("UsernameLinkError", "_", UsernameLinkInvalid),
       Arm("Io", "_", IoError),
       MediaArm("Mp4SanitizeParse", "InvalidBoxLayout", InvalidMediaInput),
       MediaArm("Mp4SanitizeParse", "InvalidInput", InvalidMediaInput),
       MediaArm("Mp4SanitizeParse", "MissingRequiredBox", InvalidMediaInput),
       MediaArm("Mp4SanitizeParse", "TruncatedBox", InvalidMediaInput),
       MediaArm("Mp4SanitizeParse", "UnsupportedBoxLayout", UnsupportedMediaInput),
       MediaArm("Mp4SanitizeParse", "UnsupportedBox", UnsupportedMediaInput),
       MediaArm("Mp4SanitizeParse", "UnsupportedFormat", UnsupportedMediaInput),
       MediaArm("WebpSanitizeParse", "InvalidChunkLayout", InvalidMediaInput),
       MediaArm("WebpSanitizeParse", "InvalidInput", InvalidMediaInput),
       MediaArm("WebpSanitizeParse", "InvalidVp8lPrefixCode", InvalidMediaInput),
       MediaArm("WebpSanitizeParse", "MissingRequiredChunk", InvalidMediaInput),
       MediaArm("WebpSanitizeParse", "TruncatedChunk", InvalidMediaInput),
       MediaArm("WebpSanitizeParse", "UnsupportedChunk", UnsupportedMediaInput),
       MediaArm("WebpSanitizeParse", "UnsupportedVp8lVersion", UnsupportedMediaInput),
       Arm("WebSocket", "_", WebSocket),
       Arm("ConnectionTimedOut", "-", ConnectionTimedOut),
       Arm("ConnectionFailed", "-", ConnectionFailed),
       Arm("ChatServiceInactive", "-", ChatServiceInactive),
       Arm("AppExpired", "-", AppExpired),
       Arm("DeviceDeregistered", "-", DeviceDeregistered),
       Arm("NetworkProtocol", "_", NetworkProtocol),
       Arm("CdsiInvalidToken", "-", CdsiInvalidToken),
       Arm("RateLimited", "_", RateLimited),
       Arm("Svr", "DataMissing", SvrDataMissing),
       Arm("Svr", "RestoreFailed", SvrRestoreFailed),
       Arm("Svr", "_", UnknownError) >>

\* The match with SessionNotFound grouped with the session-structure errors.
ArmsSessionAsInvalid ==
    <<Arm("Signal", "SessionNotFound", InvalidSession)>> \o ArmsA \o ArmsB

\* The match with the three Pin arms folded into one wildcard arm.
ArmsPinWildcard == <<Arm("Pin", "_", InvalidArgument)>> \o ArmsA \o ArmsB

\* The arms of the match in source order.
Arms == ArmsA \o ArmsB

VARIABLES
    signalMedia,  \* the build has feature "signal-media"
    added,        \* error unions given a new variant without a rule for it
    build,        \* "ok" | "rejected": did the match compile (exhaustiveness)
    err,          \* the SignalFfiError last classified
    code,         \* the SignalErrorCode it was given
    prev          \* the classification before, of an equal variant

errVars == <<signalMedia, added, build, err, code, prev>>

VARIABLES
    pc,           \* phase of the call at the boundary: "idle" | "args" | "native" | "done"
    nargs,        \* number of parameters of the native operation called
    retKind,      \* T of its return type Result<T, SignalProtocolError>
    idx,          \* arguments converted so far
    lastArg,      \* the host argument converted last
    lastConv,     \* what its convert_from returned
    stored,       \* the StoredType values the call holds for its borrowed arguments
    borrowed,     \* how many of them the call has created
    buffers,      \* Vec<u8> allocations alive
    nativeResult, \* what the native operation returned
    nativeRuns,   \* executions of the native operation in this call
    tRuns,        \* runs of T::convert_into in this call
    hostValue,    \* the value handed to the host
    handles,      \* token -> "none" | "live" | "destroyed"
    destroys,     \* token -> times its backing storage was destroyed
    uaf           \* a reference to storage that is not live was produced

callVars == <<pc, nargs, retKind, idx, lastArg, lastConv, stored, borrowed, buffers,
              nativeResult, nativeRuns, tRuns, hostValue, handles, destroys, uaf>>

vars == <<errVars, callVars>>

(***************************************************************************)
(* The error unions, as the match determines them.  A union matched with   *)
(* no wildcard arm has exactly the variants the arms name (the match would *)
(* not compile otherwise); a union matched with named arms and a wildcard  *)
(* arm has further variants, which only the wildcard covers.               *)
(***************************************************************************)
ArmIdx(top) == {i \in DOMAIN Arms : Arms[i].top = top}

NamedVariants(top) == {Arms[i].sub : i \in ArmIdx(top)} \ {"_", "-"}

HasWildcard(top) == \E i \in ArmIdx(top) : Arms[i].sub = "_"

MediaTops == {Arms[i].top : i \in {j \in DOMAIN Arms : Arms[j].cfg}}

\* The variants of SignalFfiError in a build with / without signal-media.
Tops(media) == {Arms[i].top : i \in DOMAIN Arms} \ (IF media THEN {} ELSE MediaTops)

\* The variants that carry a union of their own (the collaborator errors).
SubUnions == {t \in Tops(TRUE) : NamedVariants(t) # {}}

\* Collaborator unions whose match has a wildcard arm after the named ones.
OpenUnions == {t \in SubUnions : HasWildcard(t)}

OtherNames == <<"Other1", "Other2", "Other3", "Other4">>

OtherVariants == {OtherNames[i] : i \in 1..MaxOther}

\* What a new variant can be added to: a collaborator union or SignalFfiError.
Extensible == SubUnions \cup {"SignalFfiError"}

Declared(top, add) ==
    IF top \notin SubUnions THEN {"-"}
    ELSE NamedVariants(top)
         \cup (IF top \in OpenUnions THEN OtherVariants ELSE {})
         \cup (IF top \in add THEN {"Added"} ELSE {})

\* A unit variant carries no payload.
IsUnit(top) == \A i \in ArmIdx(top) : Arms[i].sub = "-"

PayloadsOf(top) == IF IsUnit(top) THEN {0} ELSE Payloads

\* Every constructible SignalFfiError value of the build.
ErrorValues(media, add) ==
    UNION { { [top |-> t, sub |-> s, payload |-> p] :
                  s \in Declared(t, add), p \in PayloadsOf(t) } :
            t \in Tops(media) }
    \cup (IF "SignalFfiError" \in add
          THEN {[top |-> "Added", sub |-> "-", payload |-> p] : p \in Payloads}
          ELSE {})

(***************************************************************************)
(* Pattern matching: the first arm whose pattern matches decides.          *)
(***************************************************************************)
Matches(arm, e) ==
    /\ arm.cfg => signalMedia
    /\ arm.top = e.top
    /\ arm.sub = "_" \/ arm.sub = e.sub

Matching(e) == {i \in DOMAIN Arms : Matches(Arms[i], e)}

\* A match that takes the last matching arm instead of the first.
ClassifyLastMatch(e) ==
    LET m == Matching(e)
    IN  IF m = {} THEN 0
        ELSE Arms[CHOOSE i \in m : \A j \in m : j <= i].code

\* A match that lets the payload pick between neighbouring codes.
ClassifyByPayload(e) ==
    LET m == Matching(e)
    IN  IF m = {} THEN 0
        ELSE Arms[CHOOSE i \in m : \A j \in m : i <= j].code + e.payload

\* impl From<&SignalFfiError> for SignalErrorCode: the code of the first
\* matching arm (0: no arm matches, which a compiled match never does).
Classify(e) ==
    LET m == Matching(e)
    IN  IF m = {} THEN 0
        ELSE Arms[CHOOSE i \in m : \A j \in m : i <= j].code

\* rustc's exhaustiveness check of the match.
Exhaustive(media, add) ==
    \A e \in ErrorValues(media, add) :
        \E i \in DOMAIN Arms :
            /\ Arms[i].cfg => media
            /\ Arms[i].top = e.top
            /\ Arms[i].sub = "_" \/ Arms[i].sub = e.sub

NoErr == [top |-> "none", sub |-> "-", payload |-> 0]

NoPrev == [err |-> NoErr, code |-> 0]

SameVariant(a, b) == a.top = b.top /\ a.sub = b.sub

(***************************************************************************)
(* Values at the boundary.                                                 *)
(***************************************************************************)
\* Handle tokens the allocator can hand out; 0 is the null token.
MaxHandles == 2
\* Parameters of a native operation.
MaxArgs == 2
\* Code units of a host string.
MaxStrLen == 2
\* Elements of a host byte array.
MaxBytes == 1
\* Host integers around zero, next to the two ends of jint.
MaxSmall == 1

Tokens == 1..MaxHandles

\* jint is a signed 32-bit integer.
JintMax == 2147483647
JintMin == (-JintMax) - 1

Jints == {JintMin, JintMax} \cup ((-MaxSmall)..MaxSmall)

\* UTF-16 code units: a letter, a high surrogate, a low surrogate.
CodeUnits == {65, 55296, 56320}

\* jbyte is signed.
Jbytes == {-1, 0}

SeqsUpTo(S, n) == UNION {[1..k -> S] : k \in 0..n}

\* A host argument: kind is its JNI type (jni_arg_type!).
HostArg(k, n, s) == [kind |-> k, n |-> n, s |-> s]

HostArgs ==
    {HostArg("jint", n, <<>>) : n \in Jints}
    \cup {HostArg("JString", 0, s) : s \in SeqsUpTo(CodeUnits, MaxStrLen)}
    \cup {HostArg("jbyteArray", 0, s) : s \in SeqsUpTo(Jbytes, MaxBytes)}
    \cup {HostArg("ObjectHandle", n, <<>>) : n \in 0..MaxHandles}

NoArg == HostArg("none", 0, <<>>)

\* A native value.  A u32 is hi * 2^31 + n; a bool is b; a String or Vec<u8>
\* is s; a reference to a boxed object is the token n; owned says that
\* dropping the value frees its storage.
Native(k, b, hi, n, s, o) ==
    [kind |-> k, b |-> b, hi |-> hi, n |-> n, s |-> s, owned |-> o]

NoNative == Native("none", FALSE, 0, 0, <<>>, FALSE)

\* A host value: jboolean, jint or ObjectHandle.
Host(k, n) == [kind |-> k, n |-> n]

NoValue == Host("none", 0)

FfiError(t, sb, p) == [top |-> t, sub |-> sb, payload |-> p]

\* Result<_, SignalJniError> of a conversion.
Ok(v) == [ok |-> TRUE, val |-> v, err |-> NoErr]

Err(e) == [ok |-> FALSE, val |-> NoNative, err |-> e]

NoConv == [ok |-> TRUE, val |-> NoNative, err |-> NoErr]

\* Result<T, SignalProtocolError> of the native operation.
NoResult == [ok |-> TRUE, val |-> NoNative, err |-> NoErr, none |-> TRUE]

NoCall ==
    /\ pc = "idle"
    /\ nargs = 0
    /\ retKind = "none"
    /\ idx = 0
    /\ lastArg = NoArg
    /\ lastConv = NoConv
    /\ stored = <<>>
    /\ borrowed = 0
    /\ nativeResult = NoResult
    /\ nativeRuns = 0
    /\ tRuns = 0
    /\ hostValue = NoValue

NoHandles ==
    /\ handles = [t \in Tokens |-> "none"]
    /\ destroys = [t \in Tokens |-> 0]
    /\ buffers = 0
    /\ uaf = FALSE

InitErr ==
    /\ signalMedia \in BOOLEAN
    /\ added = {}
    /\ build = "ok"
    /\ err = NoErr
    /\ code = 0
    /\ prev = NoPrev
    /\ NoCall
    /\ NoHandles

\* A caller hands an error value to the classifier.
ClassifyErr(e) ==
    /\ build = "ok"
    /\ err = NoErr
    /\ err' = e
    /\ code' = Classify(e)
    /\ prev' = NoPrev
    /\ UNCHANGED <<signalMedia, added, build>>
    /\ UNCHANGED callVars

\* The same variant, carrying another payload, is classified again.
Reclassify(p) ==
    /\ build = "ok"
    /\ err # NoErr
    /\ prev = NoPrev
    /\ p # err.payload
    /\ p \in PayloadsOf(err.top)
    /\ prev' = [err |-> err, code |-> code]
    /\ err' = [err EXCEPT !.payload = p]
    /\ code' = Classify([err EXCEPT !.payload = p])
    /\ UNCHANGED <<signalMedia, added, build>>
    /\ UNCHANGED callVars

\* The classifier returned; the next error can come.
ReturnCode ==
    /\ err # NoErr
    /\ err' = NoErr
    /\ code' = 0
    /\ prev' = NoPrev
    /\ UNCHANGED <<signalMedia, added, build>>
    /\ UNCHANGED callVars

\* A variant is added to union u with no new arm in the match, and the
\* crate is rebuilt.
AddVariant(u) ==
    /\ build = "ok"
    /\ err = NoErr
    /\ Cardinality(added) < MaxAdded
    /\ u \in Extensible \ added
    /\ u \in MediaTops => signalMedia
    /\ added' = added \cup {u}
    /\ build' = IF Exhaustive(signalMedia, added \cup {u}) THEN "ok" ELSE "rejected"
    /\ UNCHANGED <<signalMedia, err, code, prev>>
    /\ UNCHANGED callVars

NextErr ==
    \/ \E e \in ErrorValues(signalMedia, added) : ClassifyErr(e)
    \/ \E p \in Payloads : Reclassify(p)
    \/ ReturnCode
    \/ \E u \in Extensible : AddVariant(u)

SpecErr == InitErr /\ [][NextErr]_vars

(***************************************************************************)
(* Properties of the classifier, checked under SpecErr.                    *)
(***************************************************************************)

\* C1: every constructible SignalFfiError value of a build that compiled is
\* given exactly one code, a declared discriminant other than zero, and a
\* value of the same variant carrying another payload is given the same code.
C1_ClassifierTotalDeterministic ==
    err # NoErr =>
        /\ code \in SignalErrorCode
        /\ code # 0
        /\ prev # NoPrev => SameVariant(prev.err, err) /\ prev.code = code

\* C1 witness: a media sanitizer error was classified twice, with two payloads.
C1_Witness ==
    /\ err.top = "WebpSanitizeParse"
    /\ prev # NoPrev
    /\ prev.err.payload # err.payload
    /\ code = UnsupportedMediaInput

\* The unions whose match ends in a wildcard arm (util.rs lines 224, 293, 343).
WildcardUnions == {"SignalCrypto", "UsernameLinkError", "Svr"}

\* C2 as stated: a variant added to any error union without a rule of its own
\* is rejected by the build; no wildcard arm absorbs it.
C2_NewVariantRejected == added # {} => build = "rejected"

\* C2 amended: every declared variant is covered by an arm; a variant added
\* without a rule is rejected by the build exactly when its union is matched
\* without a wildcard arm, and a variant added to SignalCryptoError,
\* UsernameLinkError or Svr3Error is absorbed by that union's wildcard arm
\* into InvalidArgument (5), UsernameLinkInvalid (128), UnknownError (1).
C2_NewVariantRejectedUnlessWildcard ==
    /\ (err = NoErr /\ added = {}) => Exhaustive(signalMedia, {})
    /\ build = "rejected" <=> ~(added \subseteq WildcardUnions)
    /\ (err # NoErr /\ err.sub = "Added") =>
           /\ err.top \in WildcardUnions
           /\ err.top = "SignalCrypto" => code = 5
           /\ err.top = "UsernameLinkError" => code = 128
           /\ err.top = "Svr" => code = 1

\* C2 witness: a variant added to UsernameLinkError was classified.
C2_Witness ==
    /\ "UsernameLinkError" \in added
    /\ build = "ok"
    /\ err.top = "UsernameLinkError"
    /\ err.sub = "Added"
    /\ code = 128

\* C9: SignalProtocolError::SessionNotFound classifies to 80 and
\* SignalProtocolError::DuplicatedMessage to 90, whatever the payload.
C9_ScenarioCodes ==
    /\ (err.top = "Signal" /\ err.sub = "SessionNotFound") => code = 80
    /\ (err.top = "Signal" /\ err.sub = "DuplicatedMessage") => code = 90

\* C9 witness: a duplicated message classified again with another payload.
C9_Witness ==
    /\ err.top = "Signal"
    /\ err.sub = "DuplicatedMessage"
    /\ prev # NoPrev
    /\ err.payload # prev.err.payload
    /\ code = 90

\* C10: a variant named by an arm of its own gets that arm's code and every
\* other variant of the union the code of the wildcard arm:
\* SignalCryptoError InvalidKeySize 40, InvalidTag 30, others 5;
\* UsernameLinkError InputDataTooLong 126, InvalidEntropyDataLength 127,
\* others 128; Svr3Error DataMissing 150, RestoreFailed 151, others 1.
C10_MostSpecificArm ==
    /\ err.top = "SignalCrypto" =>
           code = CASE err.sub = "InvalidKeySize" -> 40
                    [] err.sub = "InvalidTag" -> 30
                    [] OTHER -> 5
    /\ err.top = "UsernameLinkError" =>
           code = CASE err.sub = "InputDataTooLong" -> 126
                    [] err.sub = "InvalidEntropyDataLength" -> 127
                    [] OTHER -> 128
    /\ err.top = "Svr" =>
           code = CASE err.sub = "DataMissing" -> 150
                    [] err.sub = "RestoreFailed" -> 151
                    [] OTHER -> 1

\* C10 witness: InvalidTag, matched by its own arm and by the wildcard arm.
C10_Witness ==
    /\ err.top = "SignalCrypto"
    /\ err.sub = "InvalidTag"
    /\ Cardinality(Matching(err)) = 2
    /\ code = 30

(***************************************************************************)
(* Primitive converters and the handle registry.                           *)
(***************************************************************************)

\* jint_to_u32: a checked narrowing; a negative jint is out of range.
jint_to_u32(v) ==
    IF v < 0
    THEN Err(FfiError("InvalidArgument", "-", 0))
    ELSE Ok(Native("u32", FALSE, 0, v, <<>>, FALSE))

\* foreign as u32: the two's complement bits of the jint, never an error.
U32ConvertFromWrapping(foreign) ==
    IF foreign < 0
    THEN Ok(Native("u32", FALSE, 1, (foreign + 1073741824) + 1073741824, <<>>, FALSE))
    ELSE Ok(Native("u32", FALSE, 0, foreign, <<>>, FALSE))

\* impl ArgTypeInfo for u32
U32ConvertFrom(foreign) == jint_to_u32(foreign)

IsHigh(u) == u >= 55296 /\ u < 56320

IsLow(u) == u >= 56320 /\ u < 57344

RECURSIVE DecodeUtf16(_)
\* The code points of a sequence of UTF-16 code units, up to the first
\* unpaired surrogate: [ok, s] with s the code points decoded so far.
DecodeUtf16(units) ==
    IF units = <<>> THEN [ok |-> TRUE, s |-> <<>>]
    ELSE IF IsHigh(Head(units))
    THEN IF Len(units) >= 2 /\ IsLow(units[2])
         THEN LET rest == DecodeUtf16(Tail(Tail(units)))
                  cp == 65536 + (Head(units) - 55296) * 1024 + (units[2] - 56320)
              IN  [ok |-> rest.ok, s |-> <<cp>> \o rest.s]
         ELSE [ok |-> FALSE, s |-> <<>>]
    ELSE IF IsLow(Head(units))
    THEN [ok |-> FALSE, s |-> <<>>]
    ELSE LET rest == DecodeUtf16(Tail(units))
         IN  [ok |-> rest.ok, s |-> <<Head(units)>> \o rest.s]

WellFormed(units) == DecodeUtf16(units).ok

\* env.get_string(foreign)?: the text of the host string, or the encoding error.
GetString(foreign) ==
    LET d == DecodeUtf16(foreign.s)
    IN  IF d.ok
        THEN Ok(Native("String", FALSE, 0, 0, d.s, TRUE))
        ELSE Err(FfiError("InvalidUtf8String", "-", 0))

\* A lossy conversion: whatever text was decoded before the malformed unit.
StringConvertFromLossy(foreign) ==
    Ok(Native("String", FALSE, 0, 0, DecodeUtf16(foreign.s).s, TRUE))

\* impl ArgTypeInfo for String
StringConvertFrom(foreign) ==
    LET r == GetString(foreign)
    IN  IF r.ok THEN Ok(r.val) ELSE Err(r.err)

\* env.convert_byte_array(foreign): a native copy, each jbyte as a u8.
ConvertByteArray(foreign) ==
    Ok(Native("Vec", FALSE, 0, 0,
              [i \in 1..Len(foreign.s) |-> (foreign.s[i] + 256) % 256], TRUE))

\* A buffer leaked to obtain a slice that outlives the call.
BytesConvertFromLeaked(foreign) ==
    LET r == ConvertByteArray(foreign)
    IN  IF r.ok THEN Ok([r.val EXCEPT !.owned = FALSE]) ELSE Err(r.err)

\* impl RefArgTypeInfo for &[u8], StoredType = Vec<u8>
BytesConvertFrom(foreign) ==
    LET r == ConvertByteArray(foreign)
    IN  IF r.ok THEN Ok(r.val) ELSE Err(r.err)

\* native_handle_cast: the token of a live boxed object, or NullPointer.
native_handle_cast(foreign) ==
    IF foreign.n = 0 THEN Err(FfiError("NullPointer", "-", 0))
    ELSE IF handles[foreign.n] # "live" THEN Err(FfiError("NullPointer", "-", 0))
    ELSE Ok(Native("Ref", FALSE, 0, foreign.n, <<>>, FALSE))

\* The token taken for the object's address with no check at all.
HandleConvertFromUnchecked(foreign) ==
    Ok(Native("Ref", FALSE, 0, foreign.n, <<>>, FALSE))

\* native_handle!: impl RefArgTypeInfo for &$typ, StoredType = &'static $typ
HandleConvertFrom(foreign) ==
    LET r == native_handle_cast(foreign)
    IN  IF r.ok THEN Ok(r.val) ELSE Err(r.err)

\* The convert_from of the parameter's type (jni_arg_type!).
ConvertFrom(foreign) ==
    CASE foreign.kind = "jint" -> U32ConvertFrom(foreign.n)
      [] foreign.kind = "JString" -> StringConvertFrom(foreign)
      [] foreign.kind = "jbyteArray" -> BytesConvertFrom(foreign)
      [] foreign.kind = "ObjectHandle" -> HandleConvertFrom(foreign)

\* RefArgTypeInfo (a StoredType is kept) or ArgTypeInfo (the value is passed).
IsBorrowed(foreign) == foreign.kind \in {"jbyteArray", "ObjectHandle"}

\* Result<ResultType, SignalJniError> of a result conversion; ranT counts the
\* runs of T::convert_into, boxed is the token box_object allocated.
HostOk(v, bx) == [ok |-> TRUE, val |-> v, err |-> NoErr, ranT |-> 1, boxed |-> bx]

\* box_object(Ok(self)): the object moves to storage with address t.
box_object(t) == HostOk(Host("ObjectHandle", t), t)

\* T::convert_into for T = bool, i32 (trivial!) and $typ (native_handle!).
TConvertInto(rk, v, t) ==
    CASE rk = "bool" -> HostOk(Host("jboolean", IF v.b THEN 1 ELSE 0), 0)
      [] rk = "i32" -> HostOk(Host("jint", v.n), 0)
      [] rk = "handle" -> box_object(t)

\* unwrap_or_default(): an error becomes T's default value and is converted.
ResultConvertIntoDefault(res, rk, t) ==
    TConvertInto(rk, IF res.ok THEN res.val ELSE NoNative, t)

\* impl ResultTypeInfo for Result<T, SignalProtocolError>:
\* T::convert_into(self?, env)
ResultConvertInto(res, rk, t) ==
    IF res.ok
    THEN TConvertInto(rk, res.val, t)
    ELSE [ok |-> FALSE, val |-> NoValue, err |-> res.err, ranT |-> 0, boxed |-> 0]

(***************************************************************************)
(* One call through the boundary.                                          *)
(***************************************************************************)
RetKinds == {"bool", "i32", "handle"}

\* The SignalProtocolError variants the native operations of the model fail with.
NativeErrors == {"SessionNotFound", "DuplicatedMessage", "InvalidArgument", "InvalidState"}

\* What the native operation can return: Ok(T) or Err(SignalProtocolError),
\* the error already wrapped as the boundary's Signal(_) variant.
NativeResults(rk) ==
    { [ok |-> TRUE, val |-> v, err |-> NoErr, none |-> FALSE] :
        v \in CASE rk = "bool" -> {Native("bool", bb, 0, 0, <<>>, TRUE) : bb \in BOOLEAN}
                [] rk = "i32" -> {Native("i32", FALSE, 0, n, <<>>, TRUE) :
                                      n \in (-MaxSmall)..MaxSmall}
                [] rk = "handle" -> {Native("Obj", FALSE, 0, 0, <<>>, TRUE)}
                [] OTHER -> {} }
    \cup { [ok |-> FALSE, val |-> NoNative, err |-> FfiError("Signal", sb, 0), none |-> FALSE] :
             sb \in NativeErrors }

\* Storage freed when the values of st are dropped.
Freed(st) == Cardinality({i \in DOMAIN st : st[i].owned})

FreeTokens == {t \in Tokens : handles[t] = "none"}

\* A conversion produced a reference to storage that is not a live object.
Dangling(r) ==
    /\ r.ok
    /\ r.val.kind = "Ref"
    /\ r.val.n = 0 \/ handles[r.val.n] # "live"

InitCall ==
    /\ signalMedia = FALSE
    /\ added = {}
    /\ build = "ok"
    /\ err = NoErr
    /\ code = 0
    /\ prev = NoPrev
    /\ NoCall
    /\ NoHandles

\* The host calls a native operation of n parameters returning Result<rk, _>.
BeginCall(n, rk) ==
    /\ pc = "idle"
    /\ pc' = "args"
    /\ nargs' = n
    /\ retKind' = rk
    /\ UNCHANGED <<idx, lastArg, lastConv, stored, borrowed, buffers, nativeResult,
                   nativeRuns, tRuns, hostValue, handles, destroys, uaf>>
    /\ UNCHANGED errVars

\* The failure is put aside and the call goes on with a default value.
ArgFailedSpeculative(r) ==
    /\ pc' = pc
    /\ idx' = idx + 1
    /\ UNCHANGED <<err, code, stored, buffers, borrowed>>

\* An argument whose conversion failed ends the call: its error is
\* classified, the storage of the arguments before it is dropped.
ArgFailed(r) ==
    /\ pc' = "done"
    /\ err' = r.err
    /\ code' = Classify(r.err)
    /\ stored' = <<>>
    /\ buffers' = buffers - Freed(stored)
    /\ UNCHANGED <<idx, borrowed>>

\* The next argument is converted.
ConvertArg(a) ==
    /\ pc = "args"
    /\ idx < nargs
    /\ LET r == ConvertFrom(a)
       IN  /\ lastArg' = a
           /\ lastConv' = r
           /\ uaf' = (uaf \/ Dangling(r))
           /\ IF r.ok
              THEN /\ idx' = idx + 1
                   /\ stored' = IF IsBorrowed(a) THEN Append(stored, r.val) ELSE stored
                   /\ borrowed' = IF IsBorrowed(a) THEN borrowed + 1 ELSE borrowed
                   /\ buffers' = IF r.val.kind = "Vec" THEN buffers + 1 ELSE buffers
                   /\ UNCHANGED <<pc, err, code>>
              ELSE ArgFailed(r)
    /\ UNCHANGED <<nargs, retKind, nativeResult, nativeRuns, tRuns, hostValue,
                   handles, destroys>>
    /\ UNCHANGED <<signalMedia, added, build, prev>>

\* All arguments converted: the native operation executes and returns res.
RunNative(res) ==
    /\ pc = "args"
    /\ idx = nargs
    /\ (retKind = "handle" /\ res.ok) => FreeTokens # {}
    /\ pc' = "native"
    /\ nativeResult' = res
    /\ nativeRuns' = nativeRuns + 1
    /\ lastArg' = NoArg
    /\ lastConv' = NoConv
    /\ UNCHANGED <<nargs, retKind, idx, stored, borrowed, buffers, tRuns, hostValue,
                   handles, destroys, uaf>>
    /\ UNCHANGED errVars

\* The result is converted (a boxed object gets the address t), or the
\* error classified; the call's stored values are dropped.
ConvertResult(t) ==
    /\ pc = "native"
    /\ IF retKind = "handle" /\ nativeResult.ok THEN t \in FreeTokens ELSE t = 0
    /\ LET r == ResultConvertInto(nativeResult, retKind, t)
       IN  /\ tRuns' = tRuns + r.ranT
           /\ handles' = IF r.boxed \in Tokens
                         THEN [handles EXCEPT ![r.boxed] = "live"]
                         ELSE handles
           /\ IF r.ok
              THEN hostValue' = r.val /\ UNCHANGED <<err, code>>
              ELSE err' = r.err /\ code' = Classify(r.err) /\ UNCHANGED hostValue
    /\ pc' = "done"
    /\ stored' = <<>>
    /\ buffers' = buffers - Freed(stored)
    /\ UNCHANGED <<nargs, retKind, idx, lastArg, lastConv, borrowed, nativeResult,
                   nativeRuns, destroys, uaf>>
    /\ UNCHANGED <<signalMedia, added, build, prev>>

\* The call is cancelled while its arguments are being converted.
CancelCall ==
    /\ pc = "args"
    /\ pc' = "done"
    /\ err' = FfiError("Cancelled", "-", 0)
    /\ code' = Classify(FfiError("Cancelled", "-", 0))
    /\ stored' = <<>>
    /\ buffers' = buffers - Freed(stored)
    /\ UNCHANGED <<nargs, retKind, idx, lastArg, lastConv, borrowed, nativeResult,
                   nativeRuns, tRuns, hostValue, handles, destroys, uaf>>
    /\ UNCHANGED <<signalMedia, added, build, prev>>

\* The call returns to the host.
ReturnToHost ==
    /\ pc = "done"
    /\ pc' = "idle"
    /\ nargs' = 0
    /\ retKind' = "none"
    /\ idx' = 0
    /\ lastArg' = NoArg
    /\ lastConv' = NoConv
    /\ borrowed' = 0
    /\ nativeResult' = NoResult
    /\ nativeRuns' = 0
    /\ tRuns' = 0
    /\ hostValue' = NoValue
    /\ err' = NoErr
    /\ code' = 0
    /\ UNCHANGED <<stored, buffers, handles, destroys, uaf>>
    /\ UNCHANGED <<signalMedia, added, build, prev>>

\* The host asks for the object behind token t to be destroyed.
DestroyHandle(t) ==
    /\ pc = "idle"
    /\ handles[t] # "none"
    /\ IF handles[t] = "live"
       THEN /\ handles' = [handles EXCEPT ![t] = "destroyed"]
            /\ destroys' = [destroys EXCEPT ![t] = @ + 1]
       ELSE UNCHANGED <<handles, destroys>>
    /\ UNCHANGED <<pc, nargs, retKind, idx, lastArg, lastConv, stored, borrowed,
                   buffers, nativeResult, nativeRuns, tRuns, hostValue, uaf>>
    /\ UNCHANGED errVars

NextCall ==
    \/ \E n \in 0..MaxArgs, rk \in RetKinds : BeginCall(n, rk)
    \/ \E a \in HostArgs : ConvertArg(a)
    \/ \E res \in NativeResults(retKind) : RunNative(res)
    \/ \E t \in 0..MaxHandles : ConvertResult(t)
    \/ CancelCall
    \/ ReturnToHost
    \/ \E t \in Tokens : DestroyHandle(t)

SpecCall == InitCall /\ [][NextCall]_vars

(***************************************************************************)
(* Properties of the conversion framework, checked under SpecCall.         *)
(***************************************************************************)

\* The argument converted last was a handle token that is null or does not
\* name a live object (never boxed, or destroyed).
CastOfDeadToken ==
    /\ lastArg.kind = "ObjectHandle"
    /\ lastArg.n = 0 \/ handles[lastArg.n] # "live"

IsConverted(rk, v, h) ==
    CASE rk = "bool" -> h = Host("jboolean", IF v.b THEN 1 ELSE 0)
      [] rk = "i32" -> h = Host("jint", v.n)
      [] rk = "handle" -> h.kind = "ObjectHandle" /\ h.n \in Tokens /\ handles[h.n] = "live"
      [] OTHER -> FALSE

\* C4: a call ends with a host value or with an error code, never both and
\* never neither; when the native operation returned Ok(v) the outcome is
\* T::convert_into(v), run once, and when it returned Err(e) the outcome is
\* e's code, with no host value and T::convert_into not run.
C4_ExactlyOneOutcome ==
    pc = "done" =>
        /\ (hostValue # NoValue) # (code # 0)
        /\ code # 0 <=> err # NoErr
        /\ (nativeRuns = 1 /\ nativeResult.ok) =>
               /\ IsConverted(retKind, nativeResult.val, hostValue)
               /\ tRuns = 1
               /\ code = 0
        /\ (nativeRuns = 1 /\ ~nativeResult.ok) =>
               /\ hostValue = NoValue
               /\ tRuns = 0
               /\ err = nativeResult.err
               /\ code \in SignalErrorCode

\* C4 witness: the native operation of a call returning a handle failed.
C4_Witness ==
    /\ pc = "done"
    /\ retKind = "handle"
    /\ nativeRuns = 1
    /\ ~nativeResult.ok
    /\ code = 80

\* C5: the native operation runs at most once and only after every argument
\* was converted; no result or error conversion happens before it returned;
\* a failed argument conversion ends the call with that failure's code and
\* the native operation not run.
C5_PhaseOrder ==
    /\ nativeRuns <= 1
    /\ nativeRuns = 1 => (idx = nargs /\ pc \in {"native", "done"})
    /\ pc = "args" => (nativeRuns = 0 /\ tRuns = 0 /\ hostValue = NoValue /\ code = 0)
    /\ pc = "native" => (nativeRuns = 1 /\ tRuns = 0 /\ hostValue = NoValue /\ code = 0)
    /\ (tRuns > 0 \/ hostValue # NoValue) => nativeRuns = 1
    /\ ~lastConv.ok =>
           /\ nativeRuns = 0
           /\ pc = "done"
           /\ idx < nargs
           /\ err = lastConv.err
           /\ code # 0
           /\ hostValue = NoValue

\* C5 witness: the second argument of a call failed after the first succeeded.
C5_Witness ==
    /\ pc = "done"
    /\ idx = 1
    /\ nargs = 2
    /\ ~lastConv.ok
    /\ nativeRuns = 0
    /\ code = 5

\* C6: when a call has ended, on whichever path, it holds no StoredType value
\* any more and every buffer made for its borrowed arguments is freed.
C6_StorageReleased ==
    pc \in {"done", "idle"} => (stored = <<>> /\ buffers = 0)

\* C6 witness: a call that had made a buffer ended early on a later argument.
C6_Witness ==
    /\ pc = "done"
    /\ borrowed > 0
    /\ ~lastConv.ok
    /\ lastArg.kind = "JString"
    /\ buffers = 0

\* C7: a jint in the range of u32 converts to the u32 of equal value; a
\* negative jint is an error, ends the call with InvalidArgument (5), and
\* yields no value, wrapped or truncated.
C7_CheckedU32 ==
    lastArg.kind = "jint" =>
        IF lastArg.n >= 0
        THEN /\ lastConv.ok
             /\ lastConv.val.kind = "u32"
             /\ lastConv.val.hi = 0
             /\ lastConv.val.n = lastArg.n
        ELSE /\ ~lastConv.ok
             /\ lastConv.val = NoNative
             /\ pc = "done"
             /\ code = 5
             /\ nativeRuns = 0

\* C7 witness: the least jint was given for a u32.
C7_Witness ==
    /\ lastArg.kind = "jint"
    /\ lastArg.n = JintMin
    /\ code = 5

\* C8: a host string with malformed encoding converts to the encoding error,
\* the call ends with InvalidUtf8String (7), and no String is produced.
C8_MalformedString ==
    (lastArg.kind = "JString" /\ ~WellFormed(lastArg.s)) =>
        /\ ~lastConv.ok
        /\ lastConv.val = NoNative
        /\ lastConv.err.top = "InvalidUtf8String"
        /\ pc = "done"
        /\ code = 7
        /\ nativeRuns = 0

\* C8 witness: a string with a letter and then an unpaired surrogate.
C8_Witness ==
    /\ lastArg.kind = "JString"
    /\ Len(lastArg.s) = 2
    /\ lastArg.s[1] = 65
    /\ IsHigh(lastArg.s[2])
    /\ code = 7
====
